---- MODULE Spec2Model ----
(***************************************************************************)
(* Model of the MediaPlayer event bridge of react-native-tizen             *)
(* (Libraries/MediaPlayer/MediaPlayer.tizen.js): the subscription registry *)
(* _subscriptions, the command facade (init/play/pause/stop/seekTo/        *)
(* position/destroy) and the payload decoration done by the listener       *)
(* wrapper, together with the two collaborators the bridge talks to: the   *)
(* native event emitter (addListener / remove / emit) and the native       *)
(* player module (recorded as a log of the calls it receives).             *)
(***************************************************************************)
EXTENDS Integers, Sequences, FiniteSets, TLC

(***************************************************************************)
(* Bounds of the model.                                                    *)
(***************************************************************************)
\* Number of native listeners the emitter hands out in one run.
MaxListeners == 2
\* Largest duration a 'prepared' event reports.
MaxDuration == 1

\* The most 'prepared' events in flight between the backend and the bridge.
MaxPending == 2

(***************************************************************************)
(* Tables of the module.                                                   *)
(***************************************************************************)
MEDIA_PLAYER_EVENTS ==
  [ idle                |-> "idle",
    preparing           |-> "preparing",
    prepared            |-> "prepared",
    started             |-> "started",
    paused              |-> "paused",
    updateplayinfo      |-> "updatePlayInfo",
    seeking             |-> "seeking",
    seeked              |-> "seeked",
    playbackcomplete    |-> "playbackComplete",
    playbackinterrupted |-> "playbackInterrupted",
    erroroccurred       |-> "errorOccurred",
    exceptionhappened   |-> "exceptionHappened" ]

EVENT_RESULTS ==
  << "PLAYER_OK",
     "PLAYER_INVALID_URI",
     "PLAYER_INVALID_SOURCE",
     "PLAYER_DUPLICATED_URI",
     "PLAYER_INSTANCE_DISPOSED",
     "PLAYER_INVALID_STATE",
     "PLAYER_INVALID_INSTANCE_OR_POLICY",
     "PLAYER_NONE_POLICY",
     "PLAYER_FEATURE_NOT_SUPPORTED",
     "PLAYER_VALUE_IN_USE",
     "PLAYER_WRONG_RANGE_RATE",
     "PLAYER_POSITION_OUT_OF_RANGE",
     "PLAYER_SUBTITLE_EMPTY_PATH",
     "PLAYER_SUBTITLE_FILE_PATH_NOT_EXIST",
     "PLAYER_SUBTITLE_NULL_PATH",
     "PLAYER_SUBTITLE_FORMAT_NOT_SUPPORTED",
     "PLAYER_PLAYBACK_INTERRUPTED",
     "PLAYER_ERROR_OCCURED",
     "PLAYER_TO_BE_EXTENDED" >>

\* The type EventName: the keys of MEDIA_PLAYER_EVENTS.
EventName == DOMAIN MEDIA_PLAYER_EVENTS

(***************************************************************************)
(* JavaScript values.  A string-valued slot holds a string; the values     *)
(* undefined and null are the two markers below.  A number-or-null slot    *)
(* (duration) holds <<>> for null/undefined and <<d>> for the number d.    *)
(***************************************************************************)
Undefined == "<undefined>"
Null      == "<null>"

\* A test against null and undefined only, which lets the empty string pass.
NotNullish(v) == v \notin {Undefined, Null}

\* Truthiness of a string-or-undefined-or-null value (this.uri).
Truthy(v) == v \notin {Undefined, Null, ""}

\* Truthiness of a number-or-null value (this.duration): null, undefined
\* and 0 are falsy.
TruthyNumber(n) == n # <<>> /\ n[1] # 0

\* An array read that counts its elements from 1.
ArrayGetOneBased(arr, i) == IF i \in 1 .. Len(arr) THEN arr[i] ELSE Undefined

\* An array read that counts a negative index from the end of the array.
ArrayGetWrapping(arr, i) ==
  IF i \in 0 .. (Len(arr) - 1) THEN arr[i + 1]
  ELSE IF i \in (0 - Len(arr)) .. -1 THEN arr[Len(arr) + i + 1]
  ELSE Undefined

\* arr[i] of a JavaScript array: undefined outside 0 .. length-1.
ArrayGet(arr, i) == IF i \in 0 .. (Len(arr) - 1) THEN arr[i + 1] ELSE Undefined


\* Number.isInteger(v) of a tagged JavaScript value: [t |-> "integer", n |-> c]
\* is the integer c, [t |-> "fraction", n |-> c] the number c + 0.5,
\* [t |-> "string", n |-> c] the string of the digits of c, and
\* [t |-> "undefined", n |-> 0] a missing field.
NumberIsInteger(v) == v.t = "integer"

(***************************************************************************)
(* Inputs of the model.                                                    *)
(***************************************************************************)
\* Handler function references of the application.  h1 and h2 are two
\* distinct functions with the same source text; h3 is a function of the
\* caller that reads like the one init registers.
Handlers == {"h1", "h2", "h3"}

\* The arrow function init passes to addEventListener('prepared', ...).
PreparedHandler == "onPrepared"

\* String(handler): the source text of a function.
HandlerText ==
  [ h1         |-> "(e) => log(e)",
    h2         |-> "(e) => log(e)",
    h3         |-> "(event) => { this.duration = event.duration }",
    onPrepared |-> "(event) => { this.duration = event.duration }" ]

\* The event names the application subscribes to and the backend emits.
AppEventNames == {"prepared", "started"}

\* init(source): a string source, or an integer asset reference together
\* with the uri resolveAssetSource(source) gives for it.
Sources ==
  { [isInteger |-> FALSE, uri |-> ""],
    [isInteger |-> FALSE, uri |-> "http://a.mp3"],
    [isInteger |-> TRUE,  uri |-> Undefined],
    [isInteger |-> TRUE,  uri |-> "http://a.mp3"] }

Durations == {<<>>} \cup {<<d>> : d \in 0 .. MaxDuration}

\* The ret_code fields of the payloads of a whole session.
RetCodes == { [t |-> "undefined", n |-> 0], [t |-> "integer", n |-> 0] }

\* Payloads the native backend sends with an event: every payload may carry
\* a ret_code, and the payload of 'prepared' is the one init's listener
\* reads a duration from.
Payloads(eventName) ==
  { [ret_code |-> rc, duration |-> d,
     EVENT_RESULT |-> [present |-> FALSE, value |-> Undefined]] :
    rc \in RetCodes,
    d \in IF eventName = "prepared" THEN Durations ELSE {<<>>} }

\* The ret_code fields the decoration is tried on: a missing field, a string,
\* a non-integer number and the integers around the table's index range.
DecodeRetCodes ==
  { [t |-> "undefined", n |-> 0], [t |-> "string", n |-> 0],
    [t |-> "string", n |-> 17], [t |-> "fraction", n |-> 0],
    [t |-> "fraction", n |-> 17] }
  \cup { [t |-> "integer", n |-> c] : c \in -2 .. (Len(EVENT_RESULTS) + 2) }

DecodePayloads ==
  { [ret_code |-> rc, duration |-> <<>>,
     EVENT_RESULT |-> [present |-> FALSE, value |-> Undefined]] :
    rc \in DecodeRetCodes }

\* seekTo is called with times from below 0 to beyond the largest duration.
SeekTimes == -1 .. (MaxDuration + 1)

(***************************************************************************)
(* State.                                                                  *)
(***************************************************************************)
VARIABLES
  uri,                \* MediaPlayer.uri
  duration,           \* MediaPlayer.duration
  isPreparedEventReg, \* MediaPlayer._isPreparedEventReg
  subscriptions,      \* _subscriptions: eventName -> (String(handler) -> listener id)
  nativeListeners,    \* listeners bound to MediaPlayerEventEmitter
  nextId,             \* number of listeners the emitter has handed out
  nativeCalls,        \* calls the last operation made on MediaPlayerModule
  invoked,            \* handlers the last emitted event invoked, in order
  lastOp,             \* the name of the last operation
  registered,         \* <<eventName, handler>> added by the caller and not removed since
  preparedRegs,       \* addListener calls made for PreparedHandler
  initForwarded,      \* some init reached MediaPlayerModule.init
  pending             \* sources whose 'prepared' event is queued, oldest first

vars ==
  << uri, duration, isPreparedEventReg, subscriptions, nativeListeners, nextId,
     nativeCalls, invoked, lastOp, registered, preparedRegs,
     initForwarded, pending >>

\* An object without own properties, {}.
EmptyObject == [k \in {} |-> 0]

Call(fn, time, u) == [fn |-> fn, time |-> time, uri |-> u]

Init ==
  /\ uri = Undefined
  /\ duration = <<>>
  /\ isPreparedEventReg = FALSE
  /\ subscriptions = EmptyObject
  /\ nativeListeners = {}
  /\ nextId = 0
  /\ nativeCalls = <<>>
  /\ invoked = <<>>
  /\ lastOp = "none"
  /\ registered = {}
  /\ preparedRegs = 0
  /\ initForwarded = FALSE
  /\ pending = <<>>

(***************************************************************************)
(* The registry and the emitter.                                           *)
(***************************************************************************)
\* _subscriptions.get(eventName) || {}
ListenersOf(subs, eventName) ==
  IF eventName \in DOMAIN subs THEN subs[eventName] ELSE EmptyObject

\* An addListener that first drops the listeners already bound for the same
\* event and handler.
EmitterAddListenerReplacing(nl, id, eventName, handler) ==
  { l \in nl : ~(l.eventType = MEDIA_PLAYER_EVENTS[eventName]
                 /\ l.handler = handler) }
  \cup { [id |-> id, eventType |-> MEDIA_PLAYER_EVENTS[eventName],
          handler |-> handler] }

\* MediaPlayerEventEmitter.addListener(MEDIA_PLAYER_EVENTS[eventName], wrapper):
\* the listener `id`, bound to the wire event, whose wrapper calls `handler`.
EmitterAddListener(nl, id, eventName, handler) ==
  nl \cup { [id |-> id, eventType |-> MEDIA_PLAYER_EVENTS[eventName],
             handler |-> handler] }

\* listener.remove()
EmitterRemove(nl, id) == { l \in nl : l.id # id }

\* listeners[handler] = listener; _subscriptions.set(eventName, listeners)
SubscriptionsAfterAdd(subs, eventName, handler, id) ==
  LET listeners == ListenersOf(subs, eventName)
      key == HandlerText[handler]
      updated == [k \in DOMAIN listeners \cup {key} |->
                    IF k = key THEN id ELSE listeners[k]]
  IN [e \in DOMAIN subs \cup {eventName} |->
        IF e = eventName THEN updated ELSE subs[e]]

\* removeEventListener, the native side:
\* listeners[handler] && listeners[handler].remove()
NativeAfterRemove(nl, subs, eventName, handler) ==
  LET listeners == ListenersOf(subs, eventName)
      key == HandlerText[handler]
  IN IF eventName \notin DOMAIN subs THEN nl
     ELSE IF key \in DOMAIN listeners THEN EmitterRemove(nl, listeners[key])
     ELSE nl

\* A removal that leaves the registry as it was.
SubscriptionsAfterRemoveKeepingHandle(subs, eventName, handler) == subs

\* A removal that only ever deletes listeners[handler] and keeps the bucket.
SubscriptionsAfterRemoveKeyOnly(subs, eventName, handler) ==
  IF eventName \notin DOMAIN subs THEN subs
  ELSE [e \in DOMAIN subs |->
          IF e = eventName
          THEN [k \in DOMAIN subs[e] \ {HandlerText[handler]} |-> subs[e][k]]
          ELSE subs[e]]

\* removeEventListener, the registry side: the whole event-name entry goes
\* when the bucket has exactly one own property, else only listeners[handler].
SubscriptionsAfterRemove(subs, eventName, handler) ==
  LET listeners == ListenersOf(subs, eventName)
      key == HandlerText[handler]
  IN IF eventName \notin DOMAIN subs THEN subs
     ELSE IF Cardinality(DOMAIN listeners) = 1
          THEN [e \in DOMAIN subs \ {eventName} |-> subs[e]]
          ELSE [e \in DOMAIN subs |->
                  IF e = eventName
                  THEN [k \in DOMAIN listeners \ {key} |-> listeners[k]]
                  ELSE subs[e]]

\* Every listener id stored in the registry.
StoredIds(subs) ==
  UNION { { subs[e][k] : k \in DOMAIN subs[e] } : e \in DOMAIN subs }

\* _unregisterEvents, the native side: every stored listener is removed.
NativeAfterUnregister(nl, subs) == { l \in nl : l.id \notin StoredIds(subs) }

(***************************************************************************)
(* The payload decoration of the listener wrapper.                         *)
(***************************************************************************)
\* Number.isInteger(eventData.ret_code) &&
\*   (eventData.EVENT_RESULT = EVENT_RESULTS[eventData.ret_code])
Decorate(eventData) ==
  IF NumberIsInteger(eventData.ret_code)
  THEN [eventData EXCEPT !.EVENT_RESULT =
          [present |-> TRUE, value |-> ArrayGet(EVENT_RESULTS, eventData.ret_code.n)]]
  ELSE eventData

\* The listeners bound to the wire event of eventName, in the order the
\* emitter handed them out.
RECURSIVE InOrder(_)
InOrder(ls) ==
  IF ls = {} THEN <<>>
  ELSE LET first == CHOOSE l \in ls : \A m \in ls : l.id <= m.id
       IN <<first>> \o InOrder(ls \ {first})

BoundTo(nl, eventName) ==
  InOrder({ l \in nl : l.eventType = MEDIA_PLAYER_EVENTS[eventName] })

\* What emitting eventName with payload invokes: every bound wrapper
\* decorates the payload and calls its handler with it.
Delivery(nl, eventName, payload) ==
  LET bound == BoundTo(nl, eventName)
  IN [i \in 1 .. Len(bound) |->
        [handler |-> bound[i].handler, eventData |-> Decorate(payload)]]

\* The handlers a delivery invokes.
Invokes(delivery) == { delivery[i].handler : i \in 1 .. Len(delivery) }

(***************************************************************************)
(* seekTo's clamp.                                                         *)
(***************************************************************************)
\* time = time > 0 ? time : 0
\* this.duration && (time = time < this.duration ? time : this.duration)
ClampTime(time, dur) ==
  LET t0 == IF time > 0 THEN time ELSE 0
  IN IF TruthyNumber(dur)
     THEN (IF t0 < dur[1] THEN t0 ELSE dur[1])
     ELSE t0

(***************************************************************************)
(* Operations.                                                             *)
(***************************************************************************)
addEventListener(eventName, handler) ==
  /\ nextId < MaxListeners
  /\ nextId' = nextId + 1
  /\ nativeListeners' =
       EmitterAddListener(nativeListeners, nextId + 1, eventName, handler)
  /\ subscriptions' =
       SubscriptionsAfterAdd(subscriptions, eventName, handler, nextId + 1)
  /\ registered' = registered \cup {<<eventName, handler>>}
  /\ nativeCalls' = <<>>
  /\ invoked' = <<>>
  /\ lastOp' = "addEventListener"
  /\ UNCHANGED <<uri, duration, isPreparedEventReg, preparedRegs, initForwarded, pending>>

\* The body of removeEventListener, shared with the returned handle.
RemoveBody(eventName, handler) ==
  /\ nativeListeners' =
       NativeAfterRemove(nativeListeners, subscriptions, eventName, handler)
  /\ subscriptions' = SubscriptionsAfterRemove(subscriptions, eventName, handler)
  /\ registered' = registered \ {<<eventName, handler>>}
  /\ nativeCalls' = <<>>
  /\ invoked' = <<>>
  /\ UNCHANGED <<uri, duration, isPreparedEventReg, nextId, preparedRegs,
                 initForwarded, pending>>

removeEventListener(eventName, handler) ==
  /\ RemoveBody(eventName, handler)
  /\ lastOp' = "removeEventListener"

\* remove() of the object addEventListener(eventName, handler) returned, called
\* by a caller that holds it for a registration it has not removed yet.
handleRemove(eventName, handler) ==
  /\ <<eventName, handler>> \in registered
  /\ RemoveBody(eventName, handler)
  /\ lastOp' = "removeEventListener"

\* init registering its listener whatever the flag says.
RegistersPreparedAlways(flag) == TRUE

\* Whether init goes on to register the 'prepared' listener:
\* this._isPreparedEventReg || this.addEventListener('prepared', ...)
RegistersPrepared(flag) == ~flag

\* init(source) as far as the bridge's own state goes.
InitBody(source) ==
  /\ uri' = source.uri
  /\ duration' = <<>>
  /\ lastOp' = "init"
  /\ invoked' = <<>>
  /\ UNCHANGED registered
  /\ IF ~Truthy(source.uri)
     THEN /\ nativeCalls' = <<>>
          /\ UNCHANGED <<isPreparedEventReg, subscriptions, nativeListeners,
                         nextId, preparedRegs, initForwarded>>
     ELSE /\ nativeCalls' = <<Call("init", 0, source.uri)>>
          /\ initForwarded' = TRUE
          /\ isPreparedEventReg' = TRUE
          /\ IF RegistersPrepared(isPreparedEventReg)
             THEN /\ nextId < MaxListeners
                  /\ nextId' = nextId + 1
                  /\ nativeListeners' =
                       EmitterAddListener(nativeListeners, nextId + 1,
                                          "prepared", PreparedHandler)
                  /\ subscriptions' =
                       SubscriptionsAfterAdd(subscriptions, "prepared",
                                             PreparedHandler, nextId + 1)
                  /\ preparedRegs' = preparedRegs + 1
             ELSE UNCHANGED <<subscriptions, nativeListeners, nextId, preparedRegs>>

init(source) ==
  /\ InitBody(source)
  /\ UNCHANGED pending

\* Forward without the `this.uri &&` guard.
ForwardUnguarded(fn) ==
  /\ nativeCalls' = <<Call(fn, 0, "")>>
  /\ invoked' = <<>>
  /\ lastOp' = fn
  /\ UNCHANGED <<uri, duration, isPreparedEventReg, subscriptions,
                 nativeListeners, nextId, registered, preparedRegs,
                 initForwarded, pending>>

\* play, pause and stop: this.uri && MediaPlayerModule.<fn>()
Forward(fn) ==
  /\ nativeCalls' = IF Truthy(uri) THEN <<Call(fn, 0, "")>> ELSE <<>>
  /\ invoked' = <<>>
  /\ lastOp' = fn
  /\ UNCHANGED <<uri, duration, isPreparedEventReg, subscriptions,
                 nativeListeners, nextId, registered, preparedRegs,
                 initForwarded, pending>>

play == Forward("play")

pause == Forward("pause")

stop == Forward("stop")

seekTo(time) ==
  /\ nativeCalls' =
       IF Truthy(uri) THEN <<Call("seekTo", ClampTime(time, duration), "")>>
       ELSE <<>>
  /\ invoked' = <<>>
  /\ lastOp' = "seekTo"
  /\ UNCHANGED <<uri, duration, isPreparedEventReg, subscriptions,
                 nativeListeners, nextId, registered, preparedRegs,
                 initForwarded, pending>>

\* return this.uri && MediaPlayerModule.position
position ==
  /\ nativeCalls' = IF Truthy(uri) THEN <<Call("position", 0, "")>> ELSE <<>>
  /\ invoked' = <<>>
  /\ lastOp' = "position"
  /\ UNCHANGED <<uri, duration, isPreparedEventReg, subscriptions,
                 nativeListeners, nextId, registered, preparedRegs,
                 initForwarded, pending>>

\* destroy going through this.stop(), which looks at this.uri.
DestroyCallsGuarded ==
  IF Truthy(uri) THEN <<Call("stop", 0, ""), Call("deInit", 0, "")>>
  ELSE <<Call("deInit", 0, "")>>

\* The calls destroy makes on MediaPlayerModule after _unregisterEvents.
DestroyCalls == <<Call("stop", 0, ""), Call("deInit", 0, "")>>

\* A destroy that also forgets the source and its duration.
destroyResetting ==
  /\ nativeListeners' = NativeAfterUnregister(nativeListeners, subscriptions)
  /\ subscriptions' = EmptyObject
  /\ nativeCalls' = DestroyCalls
  /\ registered' = {}
  /\ invoked' = <<>>
  /\ lastOp' = "destroy"
  /\ uri' = Null
  /\ duration' = <<>>
  /\ UNCHANGED <<isPreparedEventReg, nextId, preparedRegs, initForwarded, pending>>

destroy ==
  /\ nativeListeners' = NativeAfterUnregister(nativeListeners, subscriptions)
  /\ subscriptions' = EmptyObject
  /\ nativeCalls' = DestroyCalls
  /\ registered' = {}
  /\ invoked' = <<>>
  /\ lastOp' = "destroy"
  /\ UNCHANGED <<uri, duration, isPreparedEventReg, nextId, preparedRegs,
                 initForwarded, pending>>

\* The native backend emits eventName with payload.
EmitBody(eventName, payload) ==
  LET delivery == Delivery(nativeListeners, eventName, payload)
  IN /\ invoked' = delivery
     /\ duration' = IF PreparedHandler \in Invokes(delivery)
                    THEN payload.duration ELSE duration
     /\ nativeCalls' = <<>>
     /\ lastOp' = "emit"
     /\ UNCHANGED <<uri, isPreparedEventReg, subscriptions, nativeListeners,
                    nextId, registered, preparedRegs, initForwarded>>

emit(eventName, payload) ==
  /\ EmitBody(eventName, payload)
  /\ UNCHANGED pending

Next ==
  \/ \E e \in AppEventNames, h \in Handlers : addEventListener(e, h)
  \/ \E e \in AppEventNames, h \in Handlers : removeEventListener(e, h)
  \/ \E e \in AppEventNames, h \in Handlers : handleRemove(e, h)
  \/ \E s \in Sources : init(s)
  \/ play
  \/ pause
  \/ stop
  \/ \E t \in SeekTimes : seekTo(t)
  \/ position
  \/ destroy
  \/ \E e \in AppEventNames : \E p \in Payloads(e) : emit(e, p)

Spec == Init /\ [][Next]_vars

(***************************************************************************)
(* Vocabulary of the properties.                                           *)
(***************************************************************************)
\* The registry holds an entry under the key of handler for eventName.
HasEntry(subs, eventName, handler) ==
  /\ eventName \in DOMAIN subs
  /\ HandlerText[handler] \in DOMAIN subs[eventName]

\* The registry entry of (eventName, handler) is in place: the entry under
\* the handler's key holds a bound listener that calls this very handler.
EntryInPlace(subs, nl, eventName, handler) ==
  /\ HasEntry(subs, eventName, handler)
  /\ \E l \in nl : /\ l.id = subs[eventName][HandlerText[handler]]
                   /\ l.eventType = MEDIA_PLAYER_EVENTS[eventName]
                   /\ l.handler = handler

\* A native event for eventName would invoke handler.
WouldInvoke(nl, eventName, handler) ==
  \E p \in Payloads(eventName) : handler \in Invokes(Delivery(nl, eventName, p))

\* The last operation was addEventListener(eventName, handler).
JustAdded(eventName, handler) ==
  /\ lastOp = "addEventListener"
  /\ \E l \in nativeListeners : /\ l.id = nextId
                                /\ l.eventType = MEDIA_PLAYER_EVENTS[eventName]
                                /\ l.handler = handler

(***************************************************************************)
(* C1.  addEventListener(E,H) followed by removeEventListener(E,H), or by  *)
(* remove() on the returned handle, leaves the registry with no entry for  *)
(* (E,H), and a native event for E delivered afterwards does not invoke H, *)
(* from any reachable registry state.                                      *)
(***************************************************************************)
C1_AddThenRemoveSilencesHandler ==
  [][ \A e \in AppEventNames, h \in Handlers :
        ( /\ JustAdded(e, h)
          /\ (removeEventListener(e, h) \/ handleRemove(e, h)) )
        => /\ ~HasEntry(subscriptions', e, h)
           /\ ~WouldInvoke(nativeListeners', e, h) ]_vars

(***************************************************************************)
(* C2.  With two distinct handler references H1 and H2, whatever their     *)
(* source text, both registered for E, removeEventListener(E,H1) leaves    *)
(* H2's registry entry in place and H2's native listener active: a later   *)
(* native event for E still invokes H2.                                    *)
(***************************************************************************)
C2_RemoveLeavesOtherHandler ==
  [][ \A e \in AppEventNames, h1 \in Handlers, h2 \in Handlers :
        ( /\ h1 # h2
          /\ <<e, h1>> \in registered
          /\ <<e, h2>> \in registered
          /\ EntryInPlace(subscriptions, nativeListeners, e, h2)
          /\ removeEventListener(e, h1) )
        => /\ EntryInPlace(subscriptions', nativeListeners', e, h2)
           /\ WouldInvoke(nativeListeners', e, h2) ]_vars

(***************************************************************************)
(* C3.  As stated: no play, pause, stop or seekTo call reaches the native  *)
(* backend, and the native position is not read, while no source URI is    *)
(* set.  (The facade operations leave uri as it is, so the uri of the      *)
(* state after the operation is the uri the call was made under.)          *)
(***************************************************************************)
C3_NoCommandWithoutUri ==
  \A i \in DOMAIN nativeCalls :
    nativeCalls[i].fn \in {"play", "pause", "stop", "seekTo", "position"}
    => Truthy(uri)

(***************************************************************************)
(* C3, amended.  play(), pause(), stop(), seekTo() and position() reach    *)
(* the native backend only while a source URI is set; the one command      *)
(* that reaches it without a URI is the stop() that destroy() forwards.    *)
(***************************************************************************)
C3_NoCommandWithoutUriButDestroy ==
  /\ lastOp \in {"play", "pause", "stop", "seekTo", "position"}
     => (IF Truthy(uri)
         THEN Len(nativeCalls) = 1 /\ nativeCalls[1].fn = lastOp
         ELSE nativeCalls = <<>>)
  /\ \A i \in DOMAIN nativeCalls :
       nativeCalls[i].fn \in {"play", "pause", "stop", "seekTo", "position"}
       => (Truthy(uri) \/ (lastOp = "destroy" /\ nativeCalls[i].fn = "stop"))

\* A seekTo made after an init with a falsy uri that followed a successful
\* init: nothing was forwarded.
C3_Witness ==
  /\ lastOp = "seekTo"
  /\ initForwarded
  /\ ~Truthy(uri)
  /\ nativeCalls = <<>>

(***************************************************************************)
(* C4.  One destroy() call forwards exactly one stop() and then exactly    *)
(* one deInit() to the native backend, whether or not a URI is set, and    *)
(* leaves the subscription registry empty.                                 *)
(***************************************************************************)
C4_DestroyForwardsStopThenDeInit ==
  lastOp = "destroy"
  => /\ Len(nativeCalls) = 2
     /\ nativeCalls[1].fn = "stop"
     /\ nativeCalls[2].fn = "deInit"
     /\ DOMAIN subscriptions = {}

\* destroy() called with no URI set, after the internal listener and one of
\* the caller's were handed out.
C4_Witness ==
  /\ lastOp = "destroy"
  /\ ~Truthy(uri)
  /\ nextId >= 2
  /\ isPreparedEventReg

(***************************************************************************)
(* C5.  After destroy() no native listener created by the bridge is still  *)
(* bound: a native event delivered after destroy invokes no handler of     *)
(* the application and no internal handler.                                *)
(***************************************************************************)
C5_DestroyLeavesNoListenerBound ==
  lastOp = "destroy"
  => \A e \in AppEventNames : \A p \in Payloads(e) :
       Delivery(nativeListeners, e, p) = <<>>

(***************************************************************************)
(* C6.  With a URI set and the duration d known, seekTo(t) forwards        *)
(* exactly one native seekTo with max(0, min(t, d)), for every t and every *)
(* known d including d = 0; with the duration unknown it forwards          *)
(* max(0, t).                                                              *)
(***************************************************************************)
Min(a, b) == IF a < b THEN a ELSE b

Max(a, b) == IF a > b THEN a ELSE b

C6_SeekToClampsToDuration ==
  [][ \A t \in SeekTimes :
        (seekTo(t) /\ Truthy(uri))
        => /\ Len(nativeCalls') = 1
           /\ nativeCalls'[1].fn = "seekTo"
           /\ nativeCalls'[1].time =
                IF duration # <<>> THEN Max(0, Min(t, duration[1]))
                ELSE Max(0, t) ]_vars

(***************************************************************************)
(* C7.  init(source) whose resolved URI is empty or falsy makes no call to *)
(* the native backend, resets duration to unset, registers no listener and *)
(* leaves the prepared-listener-installed flag unchanged, in every         *)
(* reachable state; the operation completes (it logs a warning and         *)
(* returns).                                                               *)
(***************************************************************************)
C7_InitWithFalsyUri ==
  [][ \A s \in Sources :
        (lastOp' = "init" /\ init(s) /\ s.uri \in {Undefined, Null, ""})
        => /\ nativeCalls' = <<>>
           /\ duration' = <<>>
           /\ uri' = s.uri
           /\ nativeListeners' = nativeListeners
           /\ subscriptions' = subscriptions
           /\ nextId' = nextId
           /\ preparedRegs' = preparedRegs
           /\ isPreparedEventReg' = isPreparedEventReg ]_vars

\* An init with the empty string as source, after an earlier init succeeded.
C7_Witness ==
  /\ lastOp = "init"
  /\ uri = ""
  /\ isPreparedEventReg
  /\ initForwarded
  /\ nativeCalls = <<>>
  /\ duration = <<>>

(***************************************************************************)
(* C8.  Across any sequence of init calls in one session the bridge calls  *)
(* the emitter's addListener for the internal 'prepared' listener at most  *)
(* once, and exactly once as soon as one init has succeeded.               *)
(***************************************************************************)
C8_PreparedListenerRegisteredOnce ==
  /\ preparedRegs <= 1
  /\ initForwarded => preparedRegs = 1
  /\ ~initForwarded => preparedRegs = 0

\* A successful init that is not the first one: the internal listener is an
\* older one than the newest listener handed out.
C8_Witness ==
  /\ lastOp = "init"
  /\ Truthy(uri)
  /\ preparedRegs = 1
  /\ \E l \in nativeListeners : l.handler = PreparedHandler /\ l.id < nextId

C10_RemoveUnregisteredIsNoOp ==
  [][ \A e \in AppEventNames, h \in Handlers :
        ( /\ <<e, h>> \notin registered
          /\ ~HasEntry(subscriptions, e, h)
          /\ removeEventListener(e, h) )
        => /\ subscriptions' = subscriptions
           /\ nativeListeners' = nativeListeners ]_vars

(***************************************************************************)
(* C11.  Registering the same (eventName, handler) pair again without      *)
(* removing it stores the new listener handle in place of the old one and  *)
(* does not remove the old native listener: the registry holds one handle  *)
(* for the pair while the old and the new native listener are both bound,  *)
(* so one native event invokes the handler once per listener; a single     *)
(* removeEventListener for the pair then removes the newest listener only  *)
(* and the older ones still deliver to the handler.                        *)
(***************************************************************************)
\* The native listeners bound for (eventName, handler).
BoundFor(nl, eventName, handler) ==
  { l \in nl : l.eventType = MEDIA_PLAYER_EVENTS[eventName] /\ l.handler = handler }

\* How many times a delivery invokes handler.
TimesInvoked(delivery, handler) ==
  Cardinality({ i \in 1 .. Len(delivery) : delivery[i].handler = handler })

C11_DuplicateRegistrationLeaks ==
  [][ \A e \in AppEventNames, h \in Handlers :
        /\ ( /\ lastOp' = "addEventListener"
             /\ EntryInPlace(subscriptions, nativeListeners, e, h)
             /\ addEventListener(e, h) )
           => /\ subscriptions'[e][HandlerText[h]] = nextId'
              /\ DOMAIN subscriptions'[e] = DOMAIN subscriptions[e]
              /\ BoundFor(nativeListeners, e, h) \subseteq nativeListeners'
              /\ Cardinality(BoundFor(nativeListeners', e, h)) =
                   Cardinality(BoundFor(nativeListeners, e, h)) + 1
              /\ \A p \in Payloads(e) :
                   /\ TimesInvoked(Delivery(nativeListeners', e, p), h) >= 2
                   /\ TimesInvoked(Delivery(nativeListeners', e, p), h) =
                        Cardinality(BoundFor(nativeListeners', e, h))
        /\ ( /\ lastOp' = "removeEventListener"
             /\ JustAdded(e, h)
             /\ Cardinality(BoundFor(nativeListeners, e, h)) >= 2
             /\ removeEventListener(e, h) )
           => /\ ~HasEntry(subscriptions', e, h)
              /\ BoundFor(nativeListeners', e, h) =
                   { l \in BoundFor(nativeListeners, e, h) : l.id # nextId }
              /\ \A p \in Payloads(e) :
                   /\ TimesInvoked(Delivery(nativeListeners', e, p), h) >= 1
                   /\ TimesInvoked(Delivery(nativeListeners', e, p), h) =
                        Cardinality(BoundFor(nativeListeners, e, h)) - 1 ]_vars

\* One event has just invoked the same handler twice while the registry
\* holds a single handle for it.
C11_Witness ==
  /\ lastOp = "emit"
  /\ \E h \in Handlers : TimesInvoked(invoked, h) = 2
  /\ Cardinality(StoredIds(subscriptions)) = 1

(***************************************************************************)
(* C12.  destroy() removes the internal 'prepared' listener and does not   *)
(* reset the prepared-listener-installed flag, so an init after a destroy  *)
(* does not register the internal listener again: from then on no          *)
(* 'prepared' event updates the session duration, which stays unset after  *)
(* every later init.                                                       *)
(***************************************************************************)
C12_DestroyDropsPreparedListenerForGood ==
  [][ /\ destroy => /\ BoundFor(nativeListeners', "prepared", PreparedHandler) = {}
                    /\ isPreparedEventReg' = isPreparedEventReg
      /\ isPreparedEventReg => isPreparedEventReg'
      /\ ( /\ isPreparedEventReg
           /\ BoundFor(nativeListeners, "prepared", PreparedHandler) = {} )
         => /\ BoundFor(nativeListeners', "prepared", PreparedHandler) = {}
            /\ duration' # duration => duration' = <<>> ]_vars

(***************************************************************************)
(* C13.  The registry never holds an empty bucket: every event name in it  *)
(* has at least one handler entry, because removing the last handler of    *)
(* an event name deletes the event-name entry itself and removing any      *)
(* other handler deletes only that handler's entry.                        *)
(***************************************************************************)
NoEmptyBucket(subs) == \A e \in DOMAIN subs : DOMAIN subs[e] # {}

C13_NoEmptyBucket ==
  /\ NoEmptyBucket(subscriptions)
  /\ [][ /\ NoEmptyBucket(subscriptions')
         /\ \A e \in AppEventNames, h \in Handlers :
              ( /\ lastOp' = "removeEventListener"
                /\ HasEntry(subscriptions, e, h)
                /\ removeEventListener(e, h) )
              => /\ \A f \in DOMAIN subscriptions \ {e} :
                      /\ f \in DOMAIN subscriptions'
                      /\ subscriptions'[f] = subscriptions[f]
                 /\ IF DOMAIN subscriptions[e] = {HandlerText[h]}
                    THEN e \notin DOMAIN subscriptions'
                    ELSE /\ e \in DOMAIN subscriptions'
                         /\ DOMAIN subscriptions'[e] =
                              DOMAIN subscriptions[e] \ {HandlerText[h]}
                         /\ \A k \in DOMAIN subscriptions'[e] :
                              subscriptions'[e][k] = subscriptions[e][k] ]_vars

\* The last handler of an event name has just been removed while another
\* event name keeps its bucket.
C13_Witness ==
  /\ lastOp = "removeEventListener"
  /\ nextId = 2
  /\ Cardinality(nativeListeners) = 1
  /\ Cardinality(DOMAIN subscriptions) = 1
  /\ Cardinality(StoredIds(subscriptions)) = 1

C15_InitPreservesSubscriptions ==
  [][ \A s \in Sources :
        (lastOp' = "init" /\ init(s))
        => /\ uri' = s.uri
           /\ duration' = <<>>
           /\ nativeListeners \subseteq nativeListeners'
           /\ \A e \in DOMAIN subscriptions :
                /\ e \in DOMAIN subscriptions'
                /\ \A k \in DOMAIN subscriptions[e] :
                     /\ k \in DOMAIN subscriptions'[e]
                     /\ subscriptions'[e][k] = subscriptions[e][k]
           /\ \A e \in AppEventNames, h \in Handlers :
                EntryInPlace(subscriptions, nativeListeners, e, h)
                => EntryInPlace(subscriptions', nativeListeners', e, h)
           /\ (isPreparedEventReg => isPreparedEventReg') ]_vars

(***************************************************************************)
(* C16.  In every reachable state every listener handle stored in the      *)
(* registry refers to a native listener that is still active on the        *)
(* transport: no operation removes a native listener while leaving its     *)
(* handle in the registry.                                                 *)
(***************************************************************************)
C16_StoredHandlesAreActive ==
  StoredIds(subscriptions) \subseteq { l.id : l \in nativeListeners }

\* A removal has taken one native listener off the transport while another
\* handle stays in the registry.
C16_Witness ==
  /\ lastOp = "removeEventListener"
  /\ StoredIds(subscriptions) # {}
  /\ Cardinality(nativeListeners) < nextId

(***************************************************************************)
(* C17.  In a session where destroy() has never been called, after a       *)
(* successful init the next delivered 'prepared' event carrying duration d *)
(* sets the session duration to d, whatever addEventListener and           *)
(* removeEventListener calls the application has made with its own         *)
(* handlers in between.  Stated step by step: the first successful init    *)
(* binds init's listener, every step other than destroy keeps it bound,    *)
(* and a 'prepared' event delivered while it is bound sets the duration.   *)
(***************************************************************************)
C17_PreparedSetsDurationWithoutDestroy ==
  [][ /\ \A s \in Sources :
           (lastOp' = "init" /\ init(s) /\ Truthy(s.uri) /\ ~isPreparedEventReg)
           => BoundFor(nativeListeners', "prepared", PreparedHandler) # {}
      /\ ( /\ BoundFor(nativeListeners, "prepared", PreparedHandler) # {}
           /\ ~destroy )
         => BoundFor(nativeListeners', "prepared", PreparedHandler) # {}
      /\ \A p \in Payloads("prepared") :
           ( /\ lastOp' = "emit"
             /\ BoundFor(nativeListeners, "prepared", PreparedHandler) # {}
             /\ emit("prepared", p) )
           => duration' = p.duration ]_vars

NextDecode ==
  \/ \E e \in AppEventNames, h \in Handlers : addEventListener(e, h)
  \/ \E e \in AppEventNames : \E p \in DecodePayloads : emit(e, p)

SpecDecode == Init /\ [][NextDecode]_vars


(***************************************************************************)
(* Asynchronous delivery.  MediaPlayerModule.init(uri) is fire-and-forget: *)
(* the backend answers it later with a 'prepared' event that carries the   *)
(* duration of that source, and the events queued for the bridge are       *)
(* delivered one at a time, oldest first, between the application's calls. *)
(***************************************************************************)
\* The sources a session switches between, and one init refuses.
AsyncSources ==
  { [isInteger |-> FALSE, uri |-> ""],
    [isInteger |-> FALSE, uri |-> "http://a.mp3"],
    [isInteger |-> FALSE, uri |-> "http://b.mp3"] }

\* The duration the backend finds when it has prepared a source.
SourceDuration ==
  [u \in {"http://a.mp3", "http://b.mp3"} |->
     IF u = "http://a.mp3" THEN <<1>> ELSE <<2>>]

\* The payload of the 'prepared' event the backend issues for source u.
PreparedPayload(u) ==
  [ret_code |-> [t |-> "integer", n |-> 0],
   duration |-> SourceDuration[u],
   EVENT_RESULT |-> [present |-> FALSE, value |-> Undefined]]

\* init(source), with the backend queueing the 'prepared' event of the
\* source it was asked to initialise.
initAsync(source) ==
  /\ InitBody(source)
  /\ IF Truthy(source.uri)
     THEN /\ Len(pending) < MaxPending
          /\ pending' = Append(pending, source.uri)
     ELSE UNCHANGED pending

\* The event loop delivers the oldest queued 'prepared' event.
deliverPrepared ==
  /\ pending # <<>>
  /\ EmitBody("prepared", PreparedPayload(Head(pending)))
  /\ pending' = Tail(pending)

NextAsync ==
  \/ \E s \in AsyncSources : initAsync(s)
  \/ deliverPrepared
  \/ play
  \/ pause
  \/ stop
  \/ \E t \in SeekTimes : seekTo(t)

SpecAsync == Init /\ [][NextAsync]_vars

(***************************************************************************)
(* C19.  With native events delivered asynchronously, whenever the session *)
(* duration is set it is the duration of the source of the most recent     *)
(* init: a 'prepared' event issued for an earlier init and delivered after *)
(* a later init(source2) does not set the duration used to clamp seeks on  *)
(* source2.                                                                *)
(***************************************************************************)
C19_DurationIsOfLatestInit ==
  duration # <<>> => (Truthy(uri) /\ duration = SourceDuration[uri])

====
